---- MODULE Spec2Model ----
(***************************************************************************)
(* Model of src/todo_app.py: the Task record and the TaskManager that owns *)
(* an ordered list of tasks and a sequential id generator.                 *)
(*                                                                         *)
(* A Task object is referenced from exactly one slot of TaskManager.tasks  *)
(* (add_task constructs it and appends it once), so the list of object     *)
(* references is modelled as a sequence of records and an in-place         *)
(* attribute assignment as an update of the slot the lookup found.         *)
(* Python integers are unbounded, so next_id has no width.                 *)
(***************************************************************************)
EXTENDS Integers, Sequences, FiniteSets, TLC

\* Bound on the model: add_task is explored while next_id <= MaxId.
MaxId == 3

\* Bound on the model of main: handle_add_task adds while next_id <= MaxMainId.
MaxMainId == 2

\* Descriptions a caller may pass (TaskManager itself accepts any text).
\* A text is the sequence of its characters.
Descriptions == {<<>>, <<"a">>, <<"b">>}

\* Task ids a caller may pass: never issued (0, MaxId + 1), held and deleted.
TaskIds == 0..(MaxId + 1)

VARIABLES
    tasks,      \* TaskManager.tasks: the list, in list order
    next_id,    \* TaskManager.next_id
    call,       \* the last call made on the manager: operation and arguments
    ret,        \* the value that call returned
    repeated,   \* history: the last call repeats the call before it
    created,    \* history: ids of the tasks add_task has returned
    deleted,    \* history: ids for which delete_task has returned True
    adds,       \* history: number of add_task calls made
    dels,       \* history: number of delete_task calls that returned True
    running,    \* main: the while loop has not reached its break
    menu_choice, \* main: choice, the stripped line of its last iteration
    branch,     \* main: the branch its last iteration took
    inputs,     \* the lines the handler of the last iteration read
    msg         \* the result message the last iteration printed

\* What main and the handlers add to the state of the manager.
main_vars == <<running, menu_choice, branch, inputs, msg>>

vars == <<tasks, next_id, call, ret, repeated, created, deleted, adds, dels,
          running, menu_choice, branch, inputs, msg>>

\* Python's None (the result of a failed lookup and of __init__).
None == [none |-> TRUE]

\* Task.__init__: id and description from the arguments, completed False.
Task(task_id, description) ==
    [id |-> task_id, description |-> description, completed |-> FALSE]

\* The scan of get_task_by_id: position of the first task of ts, from
\* position i on, whose id equals task_id; 0 when the loop runs off the end.
RECURSIVE Scan(_, _, _)
Scan(ts, task_id, i) ==
    IF i > Len(ts) THEN 0
    ELSE IF ts[i].id = task_id THEN i
    ELSE Scan(ts, task_id, i + 1)

\* get_task_by_id as it would be if the id were used as the list position.
get_task_by_id_pos(ts, task_id) ==
    IF task_id \in 1..Len(ts) THEN ts[task_id] ELSE None

\* TaskManager.get_task_by_id: the first task with that id, or None.
get_task_by_id(ts, task_id) ==
    LET i == Scan(ts, task_id, 1) IN
    IF i = 0 THEN None ELSE ts[i]

\* TaskManager.get_all_tasks: the list itself.
get_all_tasks(ts) == ts

\* list.remove(x): the list without its first element equal to x.
RECURSIVE ListRemove(_, _)
ListRemove(ts, x) ==
    IF ts = <<>> THEN <<>>
    ELSE IF Head(ts) = x THEN Tail(ts)
    ELSE <<Head(ts)>> \o ListRemove(Tail(ts), x)

\* __init__ as it would be if the id generator started from 0.
Init_zero ==
    /\ tasks = <<>>
    /\ next_id = 0
    /\ call = [op |-> "__init__", task_id |-> 0, description |-> <<>>]
    /\ ret = None
    /\ repeated = FALSE
    /\ created = {}
    /\ deleted = {}
    /\ adds = 0
    /\ dels = 0
    /\ running = TRUE
    /\ menu_choice = <<>>
    /\ branch = "start"
    /\ inputs = <<>>
    /\ msg = ""

\* TaskManager.__init__
Init ==
    /\ tasks = <<>>
    /\ next_id = 1
    /\ call = [op |-> "__init__", task_id |-> 0, description |-> <<>>]
    /\ ret = None
    /\ repeated = FALSE
    /\ created = {}
    /\ deleted = {}
    /\ adds = 0
    /\ dels = 0
    /\ running = TRUE
    /\ menu_choice = <<>>
    /\ branch = "start"
    /\ inputs = <<>>
    /\ msg = ""

\* add_task as it would be if the id were taken from the length of the list.
add_task_len(description) ==
    LET task == Task(Len(tasks) + 1, description) IN
    /\ tasks' = Append(tasks, task)
    /\ next_id' = next_id + 1
    /\ ret' = task

\* add_task as it would be if the id were one more than the largest held id.
add_task_max(description) ==
    LET held == {tasks[i].id : i \in 1..Len(tasks)}
        top == IF held = {} THEN 0 ELSE CHOOSE m \in held : \A h \in held : h <= m
        task == Task(top + 1, description) IN
    /\ tasks' = Append(tasks, task)
    /\ next_id' = next_id + 1
    /\ ret' = task

\* add_task as it would be if the id were the smallest id no held task has.
add_task_free(description) ==
    LET held == {tasks[i].id : i \in 1..Len(tasks)}
        free == CHOOSE m \in 1..(Len(tasks) + 1) :
                    m \notin held /\ \A k \in 1..(m - 1) : k \in held
        task == Task(free, description) IN
    /\ tasks' = Append(tasks, task)
    /\ next_id' = next_id + 1
    /\ ret' = task

\* add_task as it would be if the new task were inserted at the front.
add_task_front(description) ==
    LET task == Task(next_id, description) IN
    /\ tasks' = <<task>> \o tasks
    /\ next_id' = next_id + 1
    /\ ret' = task

\* add_task as it would be if Task were built without the description.
add_task_blank(description) ==
    LET task == Task(next_id, <<>>) IN
    /\ tasks' = Append(tasks, task)
    /\ next_id' = next_id + 1
    /\ ret' = task

\* TaskManager.add_task
add_task(description) ==
    LET task == Task(next_id, description) IN
    /\ tasks' = Append(tasks, task)
    /\ next_id' = next_id + 1
    /\ ret' = task

\* update_task as it would be if it replaced the task by a newly built one.
update_task_rebuild(task_id, new_description) ==
    LET i == Scan(tasks, task_id, 1) IN
    IF get_task_by_id(tasks, task_id) # None
    THEN /\ tasks' = [tasks EXCEPT ![i] = Task(task_id, new_description)]
         /\ ret' = TRUE
         /\ UNCHANGED next_id
    ELSE /\ ret' = FALSE
         /\ UNCHANGED <<tasks, next_id>>

\* update_task as it would be if it removed the task and appended it again.
update_task_reappend(task_id, new_description) ==
    LET task == get_task_by_id(tasks, task_id) IN
    IF task # None
    THEN /\ tasks' = Append(ListRemove(tasks, task),
                            [task EXCEPT !.description = new_description])
         /\ ret' = TRUE
         /\ UNCHANGED next_id
    ELSE /\ ret' = FALSE
         /\ UNCHANGED <<tasks, next_id>>

\* TaskManager.update_task
update_task(task_id, new_description) ==
    LET i == Scan(tasks, task_id, 1) IN
    IF get_task_by_id(tasks, task_id) # None
    THEN /\ tasks' = [tasks EXCEPT ![i].description = new_description]
         /\ ret' = TRUE
         /\ UNCHANGED next_id
    ELSE /\ ret' = FALSE
         /\ UNCHANGED <<tasks, next_id>>

\* delete_task as it would be if it popped the last task of the list.
delete_task_pop(task_id) ==
    LET task == get_task_by_id(tasks, task_id) IN
    IF task # None
    THEN /\ tasks' = SubSeq(tasks, 1, Len(tasks) - 1)
         /\ ret' = TRUE
         /\ UNCHANGED next_id
    ELSE /\ ret' = FALSE
         /\ UNCHANGED <<tasks, next_id>>

\* delete_task as it would be if it gave the freed id back to the generator.
delete_task_giveback(task_id) ==
    LET task == get_task_by_id(tasks, task_id) IN
    IF task # None
    THEN /\ tasks' = ListRemove(tasks, task)
         /\ ret' = TRUE
         /\ next_id' = next_id - 1
    ELSE /\ ret' = FALSE
         /\ UNCHANGED <<tasks, next_id>>

\* TaskManager.delete_task
delete_task(task_id) ==
    LET task == get_task_by_id(tasks, task_id) IN
    IF task # None
    THEN /\ tasks' = ListRemove(tasks, task)
         /\ ret' = TRUE
         /\ UNCHANGED next_id
    ELSE /\ ret' = FALSE
         /\ UNCHANGED <<tasks, next_id>>

\* mark_task_complete as it would be if it flipped the flag.
mark_task_complete_flip(task_id) ==
    LET i == Scan(tasks, task_id, 1) IN
    IF get_task_by_id(tasks, task_id) # None
    THEN /\ tasks' = [tasks EXCEPT ![i].completed = ~tasks[i].completed]
         /\ ret' = TRUE
         /\ UNCHANGED next_id
    ELSE /\ ret' = FALSE
         /\ UNCHANGED <<tasks, next_id>>

\* TaskManager.mark_task_complete
mark_task_complete(task_id) ==
    LET i == Scan(tasks, task_id, 1) IN
    IF get_task_by_id(tasks, task_id) # None
    THEN /\ tasks' = [tasks EXCEPT ![i].completed = TRUE]
         /\ ret' = TRUE
         /\ UNCHANGED next_id
    ELSE /\ ret' = FALSE
         /\ UNCHANGED <<tasks, next_id>>

\* mark_task_incomplete as it would be if "return True" stood outside the if.
mark_task_incomplete_true(task_id) ==
    LET i == Scan(tasks, task_id, 1) IN
    IF get_task_by_id(tasks, task_id) # None
    THEN /\ tasks' = [tasks EXCEPT ![i].completed = FALSE]
         /\ ret' = TRUE
         /\ UNCHANGED next_id
    ELSE /\ ret' = TRUE
         /\ UNCHANGED <<tasks, next_id>>

\* mark_task_incomplete as it would be if copied from mark_task_complete
\* with the assigned value left as True.
mark_task_incomplete_copy(task_id) ==
    LET i == Scan(tasks, task_id, 1) IN
    IF get_task_by_id(tasks, task_id) # None
    THEN /\ tasks' = [tasks EXCEPT ![i].completed = TRUE]
         /\ ret' = TRUE
         /\ UNCHANGED next_id
    ELSE /\ ret' = FALSE
         /\ UNCHANGED <<tasks, next_id>>

\* TaskManager.mark_task_incomplete
mark_task_incomplete(task_id) ==
    LET i == Scan(tasks, task_id, 1) IN
    IF get_task_by_id(tasks, task_id) # None
    THEN /\ tasks' = [tasks EXCEPT ![i].completed = FALSE]
         /\ ret' = TRUE
         /\ UNCHANGED next_id
    ELSE /\ ret' = FALSE
         /\ UNCHANGED <<tasks, next_id>>

\* The record of one call on the manager, kept next to the manager's state:
\* which operation was called with which arguments, whether it repeats the
\* call before it, and what add_task and delete_task have done so far.
Observe(op, task_id, description) ==
    LET c == [op |-> op, task_id |-> task_id, description |-> description] IN
    /\ call' = c
    /\ repeated' = (c = call)
    /\ created' = IF op = "add_task" THEN created \cup {ret'.id} ELSE created
    /\ deleted' = IF op = "delete_task" /\ ret' = TRUE
                  THEN deleted \cup {task_id} ELSE deleted
    /\ adds' = IF op = "add_task" THEN adds + 1 ELSE adds
    /\ dels' = IF op = "delete_task" /\ ret' = TRUE THEN dels + 1 ELSE dels

\* A caller adds a task (explored up to MaxId tasks).
AddTask ==
    \E d \in Descriptions :
        /\ next_id <= MaxId
        /\ add_task(d)
        /\ Observe("add_task", 0, d)
        /\ UNCHANGED main_vars

\* A caller looks a task up.
GetTaskById ==
    \E id \in TaskIds :
        /\ ret' = get_task_by_id(tasks, id)
        /\ UNCHANGED <<tasks, next_id>>
        /\ Observe("get_task_by_id", id, <<>>)
        /\ UNCHANGED main_vars

\* A caller reads the whole list.
GetAllTasks ==
    /\ ret' = get_all_tasks(tasks)
    /\ UNCHANGED <<tasks, next_id>>
    /\ Observe("get_all_tasks", 0, <<>>)
    /\ UNCHANGED main_vars

\* A caller replaces a description.
UpdateTask ==
    \E id \in TaskIds, d \in Descriptions :
        /\ update_task(id, d)
        /\ Observe("update_task", id, d)
        /\ UNCHANGED main_vars

\* A caller deletes a task.
DeleteTask ==
    \E id \in TaskIds :
        /\ delete_task(id)
        /\ Observe("delete_task", id, <<>>)
        /\ UNCHANGED main_vars

\* A caller marks a task complete.
MarkTaskComplete ==
    \E id \in TaskIds :
        /\ mark_task_complete(id)
        /\ Observe("mark_task_complete", id, <<>>)
        /\ UNCHANGED main_vars

\* A caller marks a task incomplete.
MarkTaskIncomplete ==
    \E id \in TaskIds :
        /\ mark_task_incomplete(id)
        /\ Observe("mark_task_incomplete", id, <<>>)
        /\ UNCHANGED main_vars

Next ==
    \/ AddTask
    \/ GetTaskById
    \/ GetAllTasks
    \/ UpdateTask
    \/ DeleteTask
    \/ MarkTaskComplete
    \/ MarkTaskIncomplete

Spec == Init /\ [][Next]_vars

(***************************************************************************)
(* The console layer: main, the handlers and the validation helpers.       *)
(* A line read with input() is the sequence of its characters.             *)
(***************************************************************************)

\* The characters str.strip() removes (of those the input lines contain).
IsSpace(c) == c \in {" ", "\t"}

\* str.strip(): the text without its leading and trailing whitespace.
RECURSIVE LStrip(_)
LStrip(s) ==
    IF s # <<>> /\ IsSpace(Head(s)) THEN LStrip(Tail(s)) ELSE s

RECURSIVE RStrip(_)
RStrip(s) ==
    IF s # <<>> /\ IsSpace(s[Len(s)]) THEN RStrip(SubSeq(s, 1, Len(s) - 1))
    ELSE s

Strip(s) == RStrip(LStrip(s))

\* str.lower() on one character (of those the input lines contain).
LowerChar(c) ==
    CASE c = "Y" -> "y"
      [] c = "E" -> "e"
      [] c = "S" -> "s"
      [] c = "N" -> "n"
      [] OTHER -> c

\* str.lower()
Lower(s) == [i \in 1..Len(s) |-> LowerChar(s[i])]

\* The decimal digits, Digits[n + 1] being the digit of value n.
Digits == <<"0", "1", "2", "3", "4", "5", "6", "7", "8", "9">>

IsDigit(c) == \E n \in 1..Len(Digits) : Digits[n] = c

DigitValue(c) == (CHOOSE n \in 1..Len(Digits) : Digits[n] = c) - 1

\* The value of a digit string in which single underscores may separate
\* digits, read left to right from the value acc.
RECURSIVE DecimalValue(_, _)
DecimalValue(body, acc) ==
    IF body = <<>> THEN acc
    ELSE IF Head(body) = "_" THEN DecimalValue(Tail(body), acc)
    ELSE DecimalValue(Tail(body), 10 * acc + DigitValue(Head(body)))

\* int(text): surrounding whitespace is ignored, one sign may lead, then come
\* decimal digits which single underscores may separate (leading zeros are
\* allowed).  ok is FALSE where int raises ValueError.
ParseInt(text) ==
    LET t == Strip(text)
        signed == t # <<>> /\ Head(t) \in {"+", "-"}
        body == IF signed THEN Tail(t) ELSE t
        ok == /\ body # <<>>
              /\ \A i \in 1..Len(body) : IsDigit(body[i]) \/ body[i] = "_"
              /\ IsDigit(body[1])
              /\ IsDigit(body[Len(body)])
              /\ \A i \in 1..(Len(body) - 1) :
                    ~(body[i] = "_" /\ body[i + 1] = "_")
        magnitude == IF ok THEN DecimalValue(body, 0) ELSE 0
    IN [ok |-> ok,
        value |-> IF signed /\ Head(t) = "-" THEN 0 - magnitude ELSE magnitude]

\* is_valid_menu_choice: int(choice) succeeds and lies in 1..7.
is_valid_menu_choice(choice) ==
    LET choice_num == ParseInt(choice) IN
    IF choice_num.ok
    THEN 1 <= choice_num.value /\ choice_num.value <= 7
    ELSE FALSE

\* is_valid_task_description: something is left after strip().
is_valid_task_description(description) == Strip(description) # <<>>

\* The calls a handler makes on the manager, recorded like every other call.
call_get_all_tasks ==
    /\ ret' = get_all_tasks(tasks)
    /\ UNCHANGED <<tasks, next_id>>
    /\ Observe("get_all_tasks", 0, <<>>)

call_get_task_by_id(task_id) ==
    /\ ret' = get_task_by_id(tasks, task_id)
    /\ UNCHANGED <<tasks, next_id>>
    /\ Observe("get_task_by_id", task_id, <<>>)

\* An iteration that calls no method of the manager at all.
call_nothing ==
    /\ ret' = None
    /\ UNCHANGED <<tasks, next_id>>
    /\ Observe("none", 0, <<>>)

\* The answers handle_delete_task takes for a confirmation.
Confirmations == {<<"y">>, <<"y", "e", "s">>}

\* handle_add_task, reading the line description_line.
handle_add_task(description_line) ==
    LET description == Strip(description_line) IN
    /\ inputs' = <<description_line>>
    /\ IF ~is_valid_task_description(description)
       THEN /\ msg' = "Error: Task description cannot be empty."
            /\ call_nothing
       ELSE /\ add_task(description)
            /\ Observe("add_task", 0, description)
            /\ msg' = "Task added successfully"

\* handle_view_tasks
handle_view_tasks ==
    /\ inputs' = <<>>
    /\ call_get_all_tasks
    /\ msg' = IF get_all_tasks(tasks) = <<>> THEN "Your task list is empty."
                                             ELSE "Total tasks"

\* handle_update_task as it would be if it updated before validating the
\* new description.
handle_update_task_eager(id_line, description_line) ==
    LET task_id == ParseInt(Strip(id_line))
        new_description == Strip(description_line) IN
    IF get_all_tasks(tasks) = <<>>
    THEN /\ inputs' = <<>>
         /\ msg' = "Your task list is empty. Cannot update any tasks."
         /\ call_get_all_tasks
    ELSE IF ~task_id.ok
    THEN /\ inputs' = <<id_line>>
         /\ msg' = "Error: Task ID must be a number."
         /\ call_get_all_tasks
    ELSE IF get_task_by_id(tasks, task_id.value) = None
    THEN /\ inputs' = <<id_line>>
         /\ msg' = "Error: Task not found."
         /\ call_get_task_by_id(task_id.value)
    ELSE /\ inputs' = <<id_line, description_line>>
         /\ update_task(task_id.value, new_description)
         /\ Observe("update_task", task_id.value, new_description)
         /\ msg' = IF ~is_valid_task_description(new_description)
                      THEN "Error: Task description cannot be empty."
                      ELSE IF ret' THEN "Task updated successfully"
                      ELSE "Error: Could not update task"

\* handle_update_task, reading the lines id_line and, once the task is
\* found, description_line.
handle_update_task(id_line, description_line) ==
    LET task_id == ParseInt(Strip(id_line))
        new_description == Strip(description_line) IN
    IF get_all_tasks(tasks) = <<>>
    THEN /\ inputs' = <<>>
         /\ msg' = "Your task list is empty. Cannot update any tasks."
         /\ call_get_all_tasks
    ELSE IF ~task_id.ok
    THEN /\ inputs' = <<id_line>>
         /\ msg' = "Error: Task ID must be a number."
         /\ call_get_all_tasks
    ELSE IF get_task_by_id(tasks, task_id.value) = None
    THEN /\ inputs' = <<id_line>>
         /\ msg' = "Error: Task not found."
         /\ call_get_task_by_id(task_id.value)
    ELSE /\ inputs' = <<id_line, description_line>>
         /\ IF ~is_valid_task_description(new_description)
            THEN /\ msg' = "Error: Task description cannot be empty."
                 /\ call_get_task_by_id(task_id.value)
            ELSE /\ update_task(task_id.value, new_description)
                 /\ Observe("update_task", task_id.value, new_description)
                 /\ msg' = IF ret' THEN "Task updated successfully"
                                   ELSE "Error: Could not update task"

\* handle_delete_task as it would be if every answer but "n" and "no"
\* confirmed the deletion.
handle_delete_task_unless_no(id_line, confirm_line) ==
    LET task_id == ParseInt(Strip(id_line))
        confirm == Lower(Strip(confirm_line)) IN
    IF get_all_tasks(tasks) = <<>>
    THEN /\ inputs' = <<>>
         /\ msg' = "Your task list is empty. Cannot delete any tasks."
         /\ call_get_all_tasks
    ELSE IF ~task_id.ok
    THEN /\ inputs' = <<id_line>>
         /\ msg' = "Error: Task ID must be a number."
         /\ call_get_all_tasks
    ELSE IF get_task_by_id(tasks, task_id.value) = None
    THEN /\ inputs' = <<id_line>>
         /\ msg' = "Error: Task not found."
         /\ call_get_task_by_id(task_id.value)
    ELSE /\ inputs' = <<id_line, confirm_line>>
         /\ IF confirm \notin {<<"n">>, <<"n", "o">>}
            THEN /\ delete_task(task_id.value)
                 /\ Observe("delete_task", task_id.value, <<>>)
                 /\ msg' = IF ret' THEN "Task deleted successfully."
                                   ELSE "Error: Could not delete task"
            ELSE /\ msg' = "Task deletion cancelled."
                 /\ call_get_task_by_id(task_id.value)

\* handle_delete_task, reading the lines id_line and, once the task is
\* found, confirm_line.
handle_delete_task(id_line, confirm_line) ==
    LET task_id == ParseInt(Strip(id_line))
        confirm == Lower(Strip(confirm_line)) IN
    IF get_all_tasks(tasks) = <<>>
    THEN /\ inputs' = <<>>
         /\ msg' = "Your task list is empty. Cannot delete any tasks."
         /\ call_get_all_tasks
    ELSE IF ~task_id.ok
    THEN /\ inputs' = <<id_line>>
         /\ msg' = "Error: Task ID must be a number."
         /\ call_get_all_tasks
    ELSE IF get_task_by_id(tasks, task_id.value) = None
    THEN /\ inputs' = <<id_line>>
         /\ msg' = "Error: Task not found."
         /\ call_get_task_by_id(task_id.value)
    ELSE /\ inputs' = <<id_line, confirm_line>>
         /\ IF confirm \in Confirmations
            THEN /\ delete_task(task_id.value)
                 /\ Observe("delete_task", task_id.value, <<>>)
                 /\ msg' = IF ret' THEN "Task deleted successfully."
                                   ELSE "Error: Could not delete task"
            ELSE /\ msg' = "Task deletion cancelled."
                 /\ call_get_task_by_id(task_id.value)

\* handle_mark_complete as it would be without the "already marked" check.
handle_mark_complete_unchecked(id_line) ==
    LET task_id == ParseInt(Strip(id_line)) IN
    IF get_all_tasks(tasks) = <<>>
    THEN /\ inputs' = <<>>
         /\ msg' = "Your task list is empty. No tasks to mark as complete."
         /\ call_get_all_tasks
    ELSE IF ~task_id.ok
    THEN /\ inputs' = <<id_line>>
         /\ msg' = "Error: Task ID must be a number."
         /\ call_get_all_tasks
    ELSE IF get_task_by_id(tasks, task_id.value) = None
    THEN /\ inputs' = <<id_line>>
         /\ msg' = "Error: Task not found."
         /\ call_get_task_by_id(task_id.value)
    ELSE /\ inputs' = <<id_line>>
         /\ mark_task_complete(task_id.value)
         /\ Observe("mark_task_complete", task_id.value, <<>>)
         /\ msg' = IF ret' THEN "Task marked as complete"
                           ELSE "Error: Could not mark task as complete"

\* handle_mark_complete, reading the line id_line.
handle_mark_complete(id_line) ==
    LET task_id == ParseInt(Strip(id_line)) IN
    IF get_all_tasks(tasks) = <<>>
    THEN /\ inputs' = <<>>
         /\ msg' = "Your task list is empty. No tasks to mark as complete."
         /\ call_get_all_tasks
    ELSE IF ~task_id.ok
    THEN /\ inputs' = <<id_line>>
         /\ msg' = "Error: Task ID must be a number."
         /\ call_get_all_tasks
    ELSE IF get_task_by_id(tasks, task_id.value) = None
    THEN /\ inputs' = <<id_line>>
         /\ msg' = "Error: Task not found."
         /\ call_get_task_by_id(task_id.value)
    ELSE IF get_task_by_id(tasks, task_id.value).completed
    THEN /\ inputs' = <<id_line>>
         /\ msg' = "Task is already marked as complete."
         /\ call_get_task_by_id(task_id.value)
    ELSE /\ inputs' = <<id_line>>
         /\ mark_task_complete(task_id.value)
         /\ Observe("mark_task_complete", task_id.value, <<>>)
         /\ msg' = IF ret' THEN "Task marked as complete"
                           ELSE "Error: Could not mark task as complete"

\* handle_mark_incomplete, reading the line id_line.
handle_mark_incomplete(id_line) ==
    LET task_id == ParseInt(Strip(id_line)) IN
    IF get_all_tasks(tasks) = <<>>
    THEN /\ inputs' = <<>>
         /\ msg' = "Your task list is empty. No tasks to mark as incomplete."
         /\ call_get_all_tasks
    ELSE IF ~task_id.ok
    THEN /\ inputs' = <<id_line>>
         /\ msg' = "Error: Task ID must be a number."
         /\ call_get_all_tasks
    ELSE IF get_task_by_id(tasks, task_id.value) = None
    THEN /\ inputs' = <<id_line>>
         /\ msg' = "Error: Task not found."
         /\ call_get_task_by_id(task_id.value)
    ELSE IF ~get_task_by_id(tasks, task_id.value).completed
    THEN /\ inputs' = <<id_line>>
         /\ msg' = "Task is already marked as incomplete."
         /\ call_get_task_by_id(task_id.value)
    ELSE /\ inputs' = <<id_line>>
         /\ mark_task_incomplete(task_id.value)
         /\ Observe("mark_task_incomplete", task_id.value, <<>>)
         /\ msg' = IF ret' THEN "Task marked as incomplete"
                           ELSE "Error: Could not mark task as incomplete"

\* The if/elif chain of main: the branch one iteration takes for a choice.
\* A choice that is_valid_menu_choice accepts and no comparison matches
\* leaves the chain without running anything ("fall_through").
main_branch(ch) ==
    IF is_valid_menu_choice(ch)
    THEN      IF ch = <<"1">> THEN "handle_add_task"
         ELSE IF ch = <<"2">> THEN "handle_view_tasks"
         ELSE IF ch = <<"3">> THEN "handle_update_task"
         ELSE IF ch = <<"4">> THEN "handle_delete_task"
         ELSE IF ch = <<"5">> THEN "handle_mark_complete"
         ELSE IF ch = <<"6">> THEN "handle_mark_incomplete"
         ELSE IF ch = <<"7">> THEN "exit"
         ELSE "fall_through"
    ELSE "invalid"

\* Lines a user may type at the menu prompt.
ChoiceLines ==
    {<<Digits[n + 1]>> : n \in 0..8}
        \cup {<<" ", "1">>, <<"4", "\t">>, <<"0", "1">>, <<"+", "4">>,
              <<"a">>, <<>>}

\* Lines a user may type for a task id.
IdLines ==
    {<<Digits[n + 1]>> : n \in 0..(MaxMainId + 1)}
        \cup {<<" ", "1">>, <<"0", "2">>, <<"a">>}

\* Lines a user may type for a description.
DescriptionLines == {<<>>, <<" ">>, <<"a">>, <<" ", "b", "\t">>}

\* Lines a user may type when asked to confirm.
ConfirmLines == {<<"y">>, <<" ", "Y", "e", "S">>, <<"y", "e">>, <<"n">>, <<>>}

\* One iteration of main's loop reads line at the menu prompt, strips it,
\* and the chain takes the branch br.
Iteration(line, br) ==
    /\ running
    /\ main_branch(Strip(line)) = br
    /\ menu_choice' = Strip(line)
    /\ branch' = br
    /\ running' = (br # "exit")

MainAddTask ==
    \E line \in ChoiceLines :
        /\ Iteration(line, "handle_add_task")
        /\ \E d \in DescriptionLines :
              /\ is_valid_task_description(Strip(d)) => next_id <= MaxMainId
              /\ handle_add_task(d)

MainViewTasks ==
    \E line \in ChoiceLines :
        /\ Iteration(line, "handle_view_tasks")
        /\ handle_view_tasks

MainUpdateTask ==
    \E line \in ChoiceLines :
        /\ Iteration(line, "handle_update_task")
        /\ \E id \in IdLines, d \in DescriptionLines :
              handle_update_task(id, d)

MainDeleteTask ==
    \E line \in ChoiceLines :
        /\ Iteration(line, "handle_delete_task")
        /\ \E id \in IdLines, c \in ConfirmLines :
              handle_delete_task(id, c)

MainMarkComplete ==
    \E line \in ChoiceLines :
        /\ Iteration(line, "handle_mark_complete")
        /\ \E id \in IdLines : handle_mark_complete(id)

MainMarkIncomplete ==
    \E line \in ChoiceLines :
        /\ Iteration(line, "handle_mark_incomplete")
        /\ \E id \in IdLines : handle_mark_incomplete(id)

\* Choice 7: the goodbye message and the break.
MainExit ==
    \E line \in ChoiceLines :
        /\ Iteration(line, "exit")
        /\ inputs' = <<>>
        /\ msg' = "Thank you for using the Todo Application. Goodbye!"
        /\ call_nothing

\* The else branch of is_valid_menu_choice.
MainInvalidChoice ==
    \E line \in ChoiceLines :
        /\ Iteration(line, "invalid")
        /\ inputs' = <<>>
        /\ msg' = "Invalid choice. Please select a number between 1 and 7."
        /\ call_nothing

\* An accepted choice that no comparison of the chain matches: nothing runs
\* and nothing is printed before the menu is shown again.
MainFallThrough ==
    \E line \in ChoiceLines :
        /\ Iteration(line, "fall_through")
        /\ inputs' = <<>>
        /\ msg' = ""
        /\ call_nothing

MainNext ==
    \/ MainAddTask
    \/ MainViewTasks
    \/ MainUpdateTask
    \/ MainDeleteTask
    \/ MainMarkComplete
    \/ MainMarkIncomplete
    \/ MainExit
    \/ MainInvalidChoice
    \/ MainFallThrough

\* The program: main running on a new TaskManager.
SpecMain == Init /\ [][MainNext]_vars

(***************************************************************************)
(* Properties of TaskManager                                               *)
(***************************************************************************)

\* The ids of the held tasks, as a set and in list order.
HeldIds == {tasks[i].id : i \in 1..Len(tasks)}
IdsOf(ts) == [i \in 1..Len(ts) |-> ts[i].id]

\* The operations that look a task up by id and report success as a boolean.
ByIdOps == {"update_task", "delete_task", "mark_task_complete",
            "mark_task_incomplete"}

\* C1: every add_task returns a task whose id is strictly greater than the id
\* of every task add_task returned before on this manager, deleted ones
\* included; the first id handed out is 1.
C1_AddIdsStrictlyIncrease ==
    [][call'.op = "add_task" =>
        /\ \A i \in created : ret'.id > i
        /\ (adds = 0 => ret'.id = 1)]_vars

\* C1 witness: add_task has returned a task after an earlier task was deleted.
C1_Witness ==
    /\ call.op = "add_task"
    /\ deleted # {}
    /\ Cardinality(created) >= 2

\* C2: no two tasks held in the tasks sequence have the same id.
C2_HeldIdsUnique ==
    \A i, j \in 1..Len(tasks) : i # j => tasks[i].id # tasks[j].id

\* C2 witness: two tasks are held, one of them added after a deletion.
C2_Witness ==
    /\ Len(tasks) >= 2
    /\ deleted # {}
    /\ tasks[Len(tasks)].id \notin deleted

\* C3: update_task, delete_task, mark_task_complete and mark_task_incomplete
\* called with an id no held task has return False and leave the tasks
\* sequence and next_id exactly as they were.
C3_NotFoundIsFalseAndNoChange ==
    [][(call'.op \in ByIdOps /\ call'.task_id \notin HeldIds) =>
        /\ ret' = FALSE
        /\ tasks' = tasks
        /\ next_id' = next_id]_vars

\* C3 witness: a by-id operation has failed on the id of a deleted task
\* while other tasks are held.
C3_Witness ==
    /\ call.op \in ByIdOps
    /\ ret = FALSE
    /\ call.task_id \in deleted
    /\ tasks # <<>>

\* C4: delete_task with the id of a held task returns True; afterwards the id
\* is not found, exactly one task fewer is held, the other tasks are held
\* unchanged in the same relative order, and next_id is unchanged.
C4_DeleteRemovesExactlyOne ==
    [][(call'.op = "delete_task" /\ call'.task_id \in HeldIds) =>
        /\ ret' = TRUE
        /\ get_task_by_id(tasks', call'.task_id) = None
        /\ Len(tasks') = Len(tasks) - 1
        /\ tasks' = SelectSeq(tasks, LAMBDA t : t.id # call'.task_id)
        /\ next_id' = next_id]_vars

\* C4 witness: a task has been deleted from between two tasks still held.
C4_Witness ==
    /\ call.op = "delete_task"
    /\ ret = TRUE
    /\ Len(tasks) = 2
    /\ tasks[1].id < call.task_id
    /\ call.task_id < tasks[2].id

\* C5: update_task with the id of a held task returns True; afterwards that
\* task has the new description, and its id, its completed flag, its
\* position, every other task and next_id are unchanged.
C5_UpdateChangesOnlyDescription ==
    [][(call'.op = "update_task" /\ call'.task_id \in HeldIds) =>
        /\ ret' = TRUE
        /\ get_task_by_id(tasks', call'.task_id).description = call'.description
        /\ Len(tasks') = Len(tasks)
        /\ \A i \in 1..Len(tasks) :
              /\ tasks'[i].id = tasks[i].id
              /\ tasks'[i].completed = tasks[i].completed
              /\ tasks[i].id # call'.task_id => tasks'[i] = tasks[i]
        /\ next_id' = next_id]_vars

\* C5 witness: a completed task that is not the last of several has been
\* given a new description.
C5_Witness ==
    /\ call.op = "update_task"
    /\ ret = TRUE
    /\ Len(tasks) >= 2
    /\ tasks[1].id = call.task_id
    /\ tasks[1].completed
    /\ tasks[1].description = call.description

\* C6: mark_task_complete called twice in a row on a held task returns True
\* both times, the task is completed after each call, and the second call
\* leaves the manager's state as the first call left it.
C6_MarkCompleteIdempotent ==
    [][(/\ call.op = "mark_task_complete"
        /\ call.task_id \in HeldIds
        /\ call'.op = "mark_task_complete"
        /\ call'.task_id = call.task_id) =>
        /\ ret = TRUE
        /\ get_task_by_id(tasks, call.task_id).completed
        /\ ret' = TRUE
        /\ get_task_by_id(tasks', call.task_id).completed
        /\ tasks' = tasks
        /\ next_id' = next_id]_vars

\* C6 witness: mark_task_complete has just been called a second time in a row
\* with the id of a held task.
C6_Witness ==
    /\ call.op = "mark_task_complete"
    /\ repeated
    /\ call.task_id \in HeldIds
    /\ ret = TRUE

\* C7: add_task(d) returns a task with id equal to the previous next_id,
\* description d and completed False, appended at the end of the sequence
\* with all earlier tasks unchanged; get_task_by_id with its id, called
\* immediately afterwards, returns that task.
C7_AddAppendsAndRoundTrips ==
    [][/\ call'.op = "add_task" =>
            /\ ret' = [id |-> next_id, description |-> call'.description,
                       completed |-> FALSE]
            /\ Len(tasks') = Len(tasks) + 1
            /\ SubSeq(tasks', 1, Len(tasks)) = tasks
            /\ tasks'[Len(tasks')] = ret'
            /\ get_task_by_id(tasks', ret'.id) = ret'
       /\ (/\ call.op = "add_task"
           /\ call'.op = "get_task_by_id"
           /\ call'.task_id = ret.id) => ret' = ret]_vars

\* C7 witness: add_task has appended a task behind a held one after a
\* deletion, and the task it returned is the last of the sequence.
C7_Witness ==
    /\ call.op = "add_task"
    /\ Len(tasks) >= 2
    /\ deleted # {}
    /\ ret = tasks[Len(tasks)]
    /\ ret.description # <<>>

\* C8: once delete_task(id) has succeeded, get_task_by_id(id) is None in
\* every later state.
C8_DeletedIdNeverFoundAgain ==
    \A id \in deleted : get_task_by_id(tasks, id) = None

\* C8 witness: tasks have been added after a deletion, up to as many as were
\* ever held before.
C8_Witness ==
    /\ deleted # {}
    /\ call.op = "add_task"
    /\ \E id \in deleted : id <= Len(tasks)

\* C9: next_id is 1 on a new manager and always 1 plus the number of add_task
\* calls made; add_task raises it by exactly 1 and every other operation
\* leaves it unchanged.
C9_NextIdCountsAdds ==
    /\ [](next_id = 1 + adds)
    /\ [][IF call'.op = "add_task" THEN next_id' = next_id + 1
                                   ELSE next_id' = next_id]_vars

\* C9 witness: a task has been deleted after several add_task calls.
C9_Witness ==
    /\ call.op = "delete_task"
    /\ ret = TRUE
    /\ adds >= 2

\* C10: the tasks sequence is in strictly increasing id order; update_task,
\* mark_task_complete and mark_task_incomplete leave every task at its
\* position, and delete_task changes the order only by removing its task.
C10_CreationOrderKept ==
    /\ [](\A i, j \in 1..Len(tasks) : i < j => tasks[i].id < tasks[j].id)
    /\ [][/\ call'.op \in {"update_task", "mark_task_complete",
                           "mark_task_incomplete"} =>
                IdsOf(tasks') = IdsOf(tasks)
          /\ call'.op = "delete_task" =>
                IdsOf(tasks') =
                    SelectSeq(IdsOf(tasks), LAMBDA id : id # call'.task_id)]_vars

\* C10 witness: the first of several held tasks has been updated.
C10_Witness ==
    /\ call.op = "update_task"
    /\ ret = TRUE
    /\ Len(tasks) >= 2
    /\ tasks[1].id = call.task_id

\* The two operations that set the completed flag.
MarkOps == {"mark_task_complete", "mark_task_incomplete"}

\* C11: on a held task mark_task_incomplete returns True and leaves completed
\* False (changing nothing if it was False already), as mark_task_complete
\* returns True and leaves it True; both change nothing but that flag of the
\* targeted task; a task is incomplete when created, and no other operation
\* changes the completed flag of a task.
C11_MarkOpsChangeOnlyTheFlag ==
    [][/\ (call'.op = "mark_task_incomplete" /\ call'.task_id \in HeldIds) =>
            /\ ret' = TRUE
            /\ ~get_task_by_id(tasks', call'.task_id).completed
            /\ ~get_task_by_id(tasks, call'.task_id).completed => tasks' = tasks
       /\ (call'.op = "mark_task_complete" /\ call'.task_id \in HeldIds) =>
            /\ ret' = TRUE
            /\ get_task_by_id(tasks', call'.task_id).completed
       /\ call'.op \in MarkOps =>
            /\ Len(tasks') = Len(tasks)
            /\ \A i \in 1..Len(tasks) :
                  /\ tasks'[i].id = tasks[i].id
                  /\ tasks'[i].description = tasks[i].description
                  /\ tasks[i].id # call'.task_id => tasks'[i] = tasks[i]
            /\ next_id' = next_id
       /\ call'.op = "add_task" =>
            /\ ~ret'.completed
            /\ ~tasks'[Len(tasks')].completed
       /\ call'.op \notin MarkOps =>
            \A i \in 1..Len(tasks), j \in 1..Len(tasks') :
                tasks[i].id = tasks'[j].id =>
                    tasks'[j].completed = tasks[i].completed]_vars

\* C11 witness: mark_task_incomplete has succeeded on one of several held
\* tasks while another held task stays complete.
C11_Witness ==
    /\ call.op = "mark_task_incomplete"
    /\ ret = TRUE
    /\ ~repeated
    /\ \E i, j \in 1..Len(tasks) :
          /\ tasks[i].id = call.task_id
          /\ ~tasks[i].completed
          /\ i # j
          /\ tasks[j].completed

\* C14: get_task_by_id returns the held task with the id when there is one
\* and None when there is none; get_task_by_id and get_all_tasks change
\* nothing, and get_all_tasks returns the held tasks in sequence order.
C14_LookupsArePureAndExact ==
    [][/\ call'.op = "get_task_by_id" =>
            /\ call'.task_id \in HeldIds =>
                  /\ \E i \in 1..Len(tasks) : ret' = tasks[i]
                  /\ ret'.id = call'.task_id
            /\ call'.task_id \notin HeldIds => ret' = None
            /\ tasks' = tasks
            /\ next_id' = next_id
       /\ call'.op = "get_all_tasks" =>
            /\ ret' = tasks
            /\ tasks' = tasks
            /\ next_id' = next_id]_vars

\* C14 witness: get_task_by_id has found a task whose id differs from its
\* position in the sequence.
C14_Witness ==
    /\ call.op = "get_task_by_id"
    /\ ret # None
    /\ \E i \in 1..Len(tasks) : tasks[i] = ret /\ i # ret.id

\* C18: every held id is at least 1 and below next_id; the number of held
\* tasks is at most next_id - 1 and equals the number of add_task calls
\* minus the number of successful delete_task calls.
C18_HeldIdsBelowNextId ==
    /\ \A i \in 1..Len(tasks) : 1 <= tasks[i].id /\ tasks[i].id < next_id
    /\ Len(tasks) <= next_id - 1
    /\ Len(tasks) = adds - dels

\* C18 witness: tasks are held after some were deleted.
C18_Witness ==
    /\ dels >= 1
    /\ Len(tasks) >= 1
    /\ Len(tasks) < next_id - 1

(***************************************************************************)
(* Properties of the console layer and of descriptions                     *)
(***************************************************************************)

\* Every held task has a non-empty description.
AllDescribed(ts) == \A i \in 1..Len(ts) : ts[i].description # <<>>

\* C12 (as claimed): in every state reachable through the TaskManager
\* operations every held task has a non-empty description.
C12_HeldDescriptionsNonEmpty == AllDescribed(tasks)

\* C12 (amended): the TaskManager operations keep every held description
\* non-empty as long as add_task and update_task are given non-empty
\* descriptions; they store an empty description as it is given.
C12_NonEmptyInNonEmptyHeld ==
    [][(/\ AllDescribed(tasks)
        /\ call'.op \in {"add_task", "update_task"} =>
              call'.description # <<>>) => AllDescribed(tasks')]_vars

\* C12 witness: a held task among several has been given a new non-empty
\* description and every held task has a non-empty one.
C12_Witness ==
    /\ call.op = "update_task"
    /\ ret = TRUE
    /\ call.description # <<>>
    /\ Len(tasks) >= 2
    /\ AllDescribed(tasks)

\* C13: an empty or whitespace-only description read by the Add Task action
\* creates no task and leaves next_id unchanged; one read by the Update Task
\* action leaves the targeted task and the rest of the state unchanged.
C13_RejectedDescriptionNoEffect ==
    [][/\ (branch' = "handle_add_task" /\ Strip(inputs'[1]) = <<>>) =>
            /\ tasks' = tasks
            /\ next_id' = next_id
            /\ msg' = "Error: Task description cannot be empty."
       /\ (/\ branch' = "handle_update_task"
           /\ Len(inputs') = 2
           /\ Strip(inputs'[2]) = <<>>) =>
            /\ tasks' = tasks
            /\ next_id' = next_id
            /\ msg' = "Error: Task description cannot be empty."]_vars

\* C13 witness: the Update Task action has read a whitespace-only description
\* for a held task and rejected it.
C13_Witness ==
    /\ branch = "handle_update_task"
    /\ Len(inputs) = 2
    /\ inputs[2] # <<>>
    /\ Strip(inputs[2]) = <<>>
    /\ msg = "Error: Task description cannot be empty."

\* The branches of main that run a handler.
HandlerBranches ==
    {"handle_add_task", "handle_view_tasks", "handle_update_task",
     "handle_delete_task", "handle_mark_complete", "handle_mark_incomplete"}

\* C15: every iteration of main either runs one of the six handlers or
\* exits, when is_valid_menu_choice accepts the choice, or prints the
\* invalid-choice message, when it does not; no accepted choice passes
\* without a handler or the exit.
C15_AcceptedChoiceDispatches ==
    branch # "start" =>
        IF is_valid_menu_choice(menu_choice)
        THEN branch \in HandlerBranches \cup {"exit"} /\ msg # ""
        ELSE /\ branch = "invalid"
             /\ msg = "Invalid choice. Please select a number between 1 and 7."

\* The messages of the handlers' "Could not ..." branches.
CouldNotMessages ==
    {"Error: Could not update task", "Error: Could not delete task",
     "Error: Could not mark task as complete",
     "Error: Could not mark task as incomplete"}

\* C16: a handler calls update_task, delete_task, mark_task_complete or
\* mark_task_incomplete only with the id of a task held at that moment, so
\* the call returns True and no "Could not ..." message is printed;
\* mark_task_complete is called only on an incomplete task and
\* mark_task_incomplete only on a complete one.
C16_HandlersCallOnHeldTasks ==
    [][/\ call'.op \in ByIdOps =>
            /\ call'.task_id \in HeldIds
            /\ ret' = TRUE
       /\ msg' \notin CouldNotMessages
       /\ call'.op = "mark_task_complete" =>
            \A i \in 1..Len(tasks) :
                tasks[i].id = call'.task_id => ~tasks[i].completed
       /\ call'.op = "mark_task_incomplete" =>
            \A i \in 1..Len(tasks) :
                tasks[i].id = call'.task_id => tasks[i].completed]_vars

\* C16 witness: the Mark Task Incomplete action has called
\* mark_task_incomplete and reported success.
C16_Witness ==
    /\ branch = "handle_mark_incomplete"
    /\ call.op = "mark_task_incomplete"
    /\ ret = TRUE
    /\ msg = "Task marked as incomplete"

\* C17: the Delete Task action changes the state only when the id entered
\* names a held task and the answer, trimmed and lower-cased, is "y" or
\* "yes", and then only by removing that task; with any other answer, a
\* non-numeric id, an unknown id or an empty list nothing changes.
C17_DeleteOnlyWhenConfirmed ==
    [][branch' = "handle_delete_task" =>
        \/ /\ tasks' = tasks
           /\ next_id' = next_id
        \/ /\ tasks # <<>>
           /\ Len(inputs') = 2
           /\ ParseInt(inputs'[1]).ok
           /\ ParseInt(inputs'[1]).value \in HeldIds
           /\ Lower(Strip(inputs'[2])) \in {<<"y">>, <<"y", "e", "s">>}
           /\ tasks' = SelectSeq(tasks,
                          LAMBDA t : t.id # ParseInt(inputs'[1]).value)
           /\ next_id' = next_id]_vars

\* C17 witness: the Delete Task action has deleted a task on an answer that
\* had to be trimmed and lower-cased.
C17_Witness ==
    /\ branch = "handle_delete_task"
    /\ call.op = "delete_task"
    /\ ret = TRUE
    /\ Len(inputs) = 2
    /\ inputs[2] \notin {<<"y">>, <<"y", "e", "s">>}

====
